---------------------------- MODULE Spec2Model ----------------------------
(***************************************************************************)
(* Chatterbox TTS WebSocket server (src/websocket_server.py).              *)
(*                                                                         *)
(* One asyncio event loop runs start_server and one handle_client          *)
(* coroutine per accepted connection.  A coroutine gives the loop away     *)
(* only at an await (the read of `async for message in websocket`, and     *)
(* websocket.send); everything in between, process_tts_request included,   *)
(* runs without any other coroutine making a step.                         *)
(*                                                                         *)
(* Numbers of the configuration are scaled by 100 (0.25 is 25, 2.0 is 200).*)
(* Strings the code inspects character by character (text, language ids)  *)
(* are sequences of one-character strings.                                 *)
(***************************************************************************)
EXTENDS Integers, Sequences, FiniteSets, TLC

(***************************************************************************)
(* Bounds of the model.                                                    *)
(***************************************************************************)
\* frames the clients send in one run, all connections together
MaxMsgs == 2

\* the connections the server loop may accept
Conns == {"c1", "c2"}

(***************************************************************************)
(* Values.                                                                 *)
(***************************************************************************)
\* Python's None, and the filler of a field whose key is not in a mapping
None == "None"
Absent == ""

\* str.lower(), on the characters language ids are written with
LowerChar(ch) ==
    CASE ch = "E" -> "e"
      [] ch = "S" -> "s"
      [] ch = "N" -> "n"
      [] ch = "X" -> "x"
      [] OTHER -> ch

Lower(s) == [i \in 1..Len(s) |-> LowerChar(s[i])]

\* chatterbox.mtl_tts.SUPPORTED_LANGUAGES: the keys of the mapping
SUPPORTED_LANGUAGES == { <<"e", "s">>, <<"e", "n">> }

\* str.strip(): leading and trailing whitespace removed
IsSpace(ch) == ch \in {" ", "\t", "\n"}

\* str.lstrip(): the text from its first character that is no whitespace on
LStrip(s) ==
    LET first == CHOOSE i \in 1..(Len(s) + 1) :
                    /\ \A j \in 1..(i - 1) : IsSpace(s[j])
                    /\ i <= Len(s) => ~IsSpace(s[i])
    IN  SubSeq(s, first, Len(s))

\* str.rstrip(): the text up to its last character that is no whitespace
RStrip(s) ==
    LET last == CHOOSE i \in 0..Len(s) :
                   /\ \A j \in (i + 1)..Len(s) : IsSpace(s[j])
                   /\ i >= 1 => ~IsSpace(s[i])
    IN  SubSeq(s, 1, last)

Strip(s) == RStrip(LStrip(s))

\* the characters of the text kept by `text[:500]`
MaxTextLen == 500

\* Truncate that cuts one character too many
Truncate_short(text) ==
    IF Len(text) > MaxTextLen THEN SubSeq(text, 1, MaxTextLen - 1) ELSE text

Truncate(text) ==
    IF Len(text) > MaxTextLen THEN SubSeq(text, 1, MaxTextLen) ELSE text

(***************************************************************************)
(* _validate_config                                                        *)
(***************************************************************************)
\* the keys of `defaults`, in the order the dict holds them
ConfigKeys ==
    << "language_id", "exaggeration", "temperature", "cfg_weight",
       "repetition_penalty", "min_p", "top_p" >>

NumericKeys == { ConfigKeys[i] : i \in 2..Len(ConfigKeys) }

defaults ==
    [ language_id |-> <<"e", "s">>,
      exaggeration |-> 50,
      temperature |-> 80,
      cfg_weight |-> 50,
      repetition_penalty |-> 200,
      min_p |-> 5,
      top_p |-> 100 ]

\* the closed range of each numeric key
Range ==
    [ exaggeration |-> <<25, 200>>,
      temperature |-> <<5, 500>>,
      cfg_weight |-> <<0, 100>>,
      repetition_penalty |-> <<100, 300>>,
      min_p |-> <<0, 100>>,
      top_p |-> <<0, 100>> ]

\* the message of the ValueError of each numeric key (messages are tuples of
\* their parts)
RangeError ==
    [ exaggeration |-> <<"Exaggeration", " must be between ", "0.25", " and ", "2.0">>,
      temperature |-> <<"Temperature", " must be between ", "0.05", " and ", "5.0">>,
      cfg_weight |-> <<"CFG weight", " must be between ", "0.0", " and ", "1.0">>,
      repetition_penalty |-> <<"Repetition penalty", " must be between ", "1.0", " and ", "3.0">>,
      min_p |-> <<"Min_p", " must be between ", "0.0", " and ", "1.0">>,
      top_p |-> <<"Top_p", " must be between ", "0.0", " and ", "1.0">> ]

\* InRange that leaves the upper bound out
InRange_open(key, v) == Range[key][1] <= v /\ v < Range[key][2]

InRange(key, v) == Range[key][1] <= v /\ v <= Range[key][2]

\* the outcome of a call: the value returned or the message of the exception
Raised(msg) == [ok |-> FALSE, error |-> msg, value |-> defaults]
Returned(v) == [ok |-> TRUE, error |-> <<>>, value |-> v]

\* lines 113-128: the loop over defaults.items(), from key number i on
RECURSIVE ValidateFrom(_, _, _)
ValidateFrom(i, config, acc) ==
    IF i > Len(ConfigKeys) THEN Returned(acc)
    ELSE LET key == ConfigKeys[i] IN
         IF key \notin DOMAIN config THEN ValidateFrom(i + 1, config, acc)
         ELSE IF key \in NumericKeys /\ ~InRange(key, config[key])
              THEN Raised(RangeError[key])
              ELSE ValidateFrom(i + 1, config, [acc EXCEPT ![key] = config[key]])

\* line 110: the message names the id and lists the keys of SUPPORTED_LANGUAGES
UnsupportedLanguage(lang) ==
    <<"Unsupported language: ">> \o lang
       \o <<". Supported languages: ", SUPPORTED_LANGUAGES>>

\* lines 94-130
_validate_config(config) ==
    IF "language_id" \in DOMAIN config
    THEN LET lang == Lower(config["language_id"]) IN
         IF lang \notin SUPPORTED_LANGUAGES
         THEN Raised(UnsupportedLanguage(lang))
         ELSE ValidateFrom(1, config, [defaults EXCEPT !["language_id"] = lang])
    ELSE ValidateFrom(1, config, defaults)

(***************************************************************************)
(* Messages.                                                               *)
(***************************************************************************)
\* the `data` of a tts_request: `keys` are the keys the mapping holds; the
\* field of a key it does not hold is a filler
TtsData(keys, text, reference_audio, config) ==
    [ keys |-> keys, text |-> text, reference_audio |-> reference_audio,
      config |-> config ]

NoData == TtsData({}, <<>>, Absent, <<>>)

\* a frame of the client: text json.loads rejects, JSON that is no object,
\* or an object with its "type" (Absent: no such key) and "data"
BadJson == [json |-> "invalid", type |-> Absent, data |-> NoData]
NotAnObject == [json |-> "value", type |-> Absent, data |-> NoData]
Object(type, data) == [json |-> "object", type |-> type, data |-> data]

Hola == <<"H", "o", "l", "a">>

\* what the server sends: `keys` are the keys of its "data"
Response(type, keys, status, audio, message, language) ==
    [ type |-> type, keys |-> keys, status |-> status, audio |-> audio,
      message |-> message, sample_rate |-> IF "sample_rate" \in keys THEN "model.sr" ELSE Absent,
      language |-> language ]

NoResponse == Response("", {}, Absent, Absent, <<>>, <<>>)

\* lines 215-223
welcome_msg ==
    Response("server_info",
             {"message", "supported_languages", "default_language", "device"},
             Absent, Absent, <<"Chatterbox TTS WebSocket Server">>, <<>>)

\* lines 180-189
TtsSuccess(config) ==
    Response("tts_response",
             {"audio", "status", "message", "sample_rate", "language"},
             "success", "audio_base64",
             <<"Generated audio for '">> \o config["language_id"] \o <<"' text">>,
             config["language_id"])

\* TtsError built from the mapping of the success: it keeps the sample rate
\* and a language
TtsError_mixed(e) ==
    Response("tts_response",
             {"audio", "status", "message", "sample_rate", "language"},
             "error", None, e, <<"e", "s">>)

\* lines 199-206
TtsError(e) ==
    Response("tts_response", {"audio", "status", "message"}, "error", None, e, <<>>)

\* pong_response that carries the data of the ping back
pong_response_echo ==
    Response("pong", {"message", "echo"}, Absent, Absent, <<"Server is alive">>, <<>>)

\* lines 238-241
pong_response ==
    Response("pong", {"message"}, Absent, Absent, <<"Server is alive">>, <<>>)

\* lines 246-251, 255-260, 265-270
error_response(message) ==
    Response("error", {"message"}, Absent, Absent, message, <<>>)

(***************************************************************************)
(* What the clients send.                                                  *)
(***************************************************************************)
\* base64.b64decode raises on a payload that is not base64 (lines 52, 56-58)
b64decode_raises(base64_audio) == base64_audio = "not base64"

\* the `data` of the tts_requests the clients send: a plain request, a language id
\* in capitals, a temperature above its range, reference audio, and reference
\* audio that is not base64
TtsInputs ==
    { TtsData({"text"}, Hola, Absent, <<>>),
      TtsData({"text", "config"}, Hola, Absent, [language_id |-> <<"E", "S">>]),
      TtsData({"text", "config"}, Hola, Absent, [temperature |-> 501]),
      TtsData({"text", "reference_audio"}, Hola, "UklGRg==", <<>>),
      TtsData({"text", "reference_audio"}, Hola, "not base64", <<>>) }

\* the frames the clients send
Messages ==
    { BadJson, NotAnObject, Object("foo", NoData), Object("ping", NoData) }
    \cup { Object("tts_request", d) : d \in TtsInputs }

(***************************************************************************)
(* State.                                                                  *)
(***************************************************************************)
VARIABLES
    server,                 \* start_server: "init", "serving" or "aborted"
    model,                  \* self.model
    device,                 \* self.device
    pc,                     \* where each handle_client coroutine stands
    transport,              \* whether the connection is open
    inbox,                  \* frames of the client not yet read
    sent,                   \* what the server has sent on the connection,
                            \* each message by its Summary
    recvd,                  \* how many frames handle_client has read
    message,                \* the frame being handled
    text,                   \* process_tts_request: text
    config,                 \* process_tts_request: config
    reference_audio_path,   \* process_tts_request: reference_audio_path
    e,                      \* the message of the exception being handled
    response,               \* the response about to be sent
    call,                   \* the arguments of model.generate, while it runs
    disk,                   \* the temporary files that exist
    nmsgs                   \* frames sent by all clients

conn == <<pc, transport, inbox, sent, recvd>>
locals == <<message, text, config, reference_audio_path, e, response, call>>
vars == <<server, model, device, conn, locals, disk, nmsgs>>

NoFile == <<>>
NoCall == [text |-> <<>>, audio_prompt_path |-> NoFile, config |-> defaults]

\* lines 29-36
_get_device(cuda_is_available, mps_is_available) ==
    IF cuda_is_available THEN "cuda"
    ELSE IF mps_is_available THEN "mps" ELSE "cpu"

\* __init__, lines 23-27, on a host with these backends
InitOn(cuda_is_available, mps_is_available) ==
    /\ server = "init"
    /\ model = None
    /\ device = _get_device(cuda_is_available, mps_is_available)
    /\ pc = [c \in Conns |-> "none"]
    /\ transport = [c \in Conns |-> FALSE]
    /\ inbox = [c \in Conns |-> <<>>]
    /\ sent = [c \in Conns |-> <<>>]
    /\ recvd = [c \in Conns |-> 0]
    /\ message = [c \in Conns |-> BadJson]
    /\ text = [c \in Conns |-> <<>>]
    /\ config = [c \in Conns |-> defaults]
    /\ reference_audio_path = [c \in Conns |-> NoFile]
    /\ e = [c \in Conns |-> <<>>]
    /\ response = [c \in Conns |-> NoResponse]
    /\ call = [c \in Conns |-> NoCall]
    /\ disk = {}
    /\ nmsgs = 0

\* a host with no accelerator: _get_device() is "cpu"
Init == InitOn(FALSE, FALSE)

\* the coroutine is between two awaits: it holds the event loop
Running ==
    { "dispatch", "tts_validate", "tts_decode", "tts_generate", "generating",
      "tts_encode", "tts_cleanup", "tts_except", "send", "send_except" }

\* the event loop can run a step of another coroutine
LoopFree == \A c \in Conns : pc[c] \notin Running

(***************************************************************************)
(* start_server and load_model                                             *)
(***************************************************************************)
\* lines 38-47: from_pretrained(device) returns the model or raises; a model
\* already loaded is kept
load_raises(loads) == model = None /\ ~loads

\* load_model without the test of line 40: from_pretrained is called again and
\* its new object replaces the handle
load_model_reload(loads) ==
    model' = IF ~loads THEN model
             ELSE IF model = None THEN "ChatterboxMultilingualTTS"
             ELSE "ChatterboxMultilingualTTS, loaded again"

load_model(loads) ==
    model' = IF model = None /\ loads THEN "ChatterboxMultilingualTTS" ELSE model

\* lines 279-289: the endpoint is opened once load_model has returned
start_server ==
    /\ server = "init"
    /\ \E loads \in BOOLEAN :
          /\ load_model(loads)
          /\ server' = IF load_raises(loads) THEN "aborted" ELSE "serving"
    /\ UNCHANGED <<device, conn, locals, disk, nmsgs>>

(***************************************************************************)
(* The clients.  The event loop takes what arrives on a socket, a frame or *)
(* the end of the connection, when no coroutine is running: until then it  *)
(* waits in the socket and the server knows nothing of it.                 *)
(***************************************************************************)
\* a frame of the client arrives and is queued for handle_client
ClientSend(c, m) ==
    /\ LoopFree
    /\ pc[c] \notin {"none", "closed"}
    /\ transport[c]
    /\ nmsgs < MaxMsgs
    /\ inbox' = [inbox EXCEPT ![c] = Append(@, m)]
    /\ nmsgs' = nmsgs + 1
    /\ UNCHANGED <<server, model, device, pc, transport, sent, recvd, locals, disk>>

\* the client closes the connection, or the connection drops; the frames that
\* arrived before are still read
ClientClose(c) ==
    /\ LoopFree
    /\ pc[c] \notin {"none", "closed"}
    /\ transport[c]
    /\ transport' = [transport EXCEPT ![c] = FALSE]
    /\ UNCHANGED <<server, model, device, pc, inbox, sent, recvd, locals, disk, nmsgs>>

(***************************************************************************)
(* handle_client                                                           *)
(***************************************************************************)
\* a message sent, as the log keeps it: its type and status, the text of an
\* error, and the number of the frame it answers (0: none)
Summary(r, k) ==
    [ type |-> r.type, status |-> r.status,
      message |-> IF r.type = "error" THEN r.message ELSE <<>>, re |-> k ]

\* websocket.send(json.dumps(r)) on an open connection
Sent(c, r, k) == sent' = [sent EXCEPT ![c] = Append(@, Summary(r, k))]

\* Forget of a handler that keeps reference_audio_path in a field of the
\* server instead of a local: the next request finds the path of the last
Forget_keeps_path(c) ==
    /\ message' = [message EXCEPT ![c] = BadJson]
    /\ text' = [text EXCEPT ![c] = <<>>]
    /\ config' = [config EXCEPT ![c] = defaults]
    /\ reference_audio_path' = reference_audio_path
    /\ e' = [e EXCEPT ![c] = <<>>]
    /\ response' = [response EXCEPT ![c] = NoResponse]
    /\ call' = [call EXCEPT ![c] = NoCall]

\* the coroutine returns to `async for`: the locals of the iteration are gone
Forget(c) ==
    /\ message' = [message EXCEPT ![c] = BadJson]
    /\ text' = [text EXCEPT ![c] = <<>>]
    /\ config' = [config EXCEPT ![c] = defaults]
    /\ reference_audio_path' = [reference_audio_path EXCEPT ![c] = NoFile]
    /\ e' = [e EXCEPT ![c] = <<>>]
    /\ response' = [response EXCEPT ![c] = NoResponse]
    /\ call' = [call EXCEPT ![c] = NoCall]

\* line 287: serve() accepts a connection and starts handle_client for it
Accept(c) ==
    /\ server = "serving"
    /\ LoopFree
    /\ pc[c] = "none"
    /\ pc' = [pc EXCEPT ![c] = "accepted"]
    /\ transport' = [transport EXCEPT ![c] = TRUE]
    /\ UNCHANGED <<server, model, device, inbox, sent, recvd, locals, disk, nmsgs>>

\* Welcome without line 224: the handler starts to listen and has sent nothing
Welcome_unsent(c) ==
    /\ LoopFree
    /\ pc[c] = "accepted"
    /\ pc' = [pc EXCEPT ![c] = IF transport[c] THEN "listening" ELSE "closed"]
    /\ UNCHANGED <<server, model, device, transport, inbox, sent, recvd, locals, disk, nmsgs>>

\* lines 213-224: the welcome message; ConnectionClosed ends the handler (273)
Welcome(c) ==
    /\ LoopFree
    /\ pc[c] = "accepted"
    /\ IF transport[c]
       THEN /\ Sent(c, welcome_msg, 0)
            /\ pc' = [pc EXCEPT ![c] = "listening"]
       ELSE /\ pc' = [pc EXCEPT ![c] = "closed"]
            /\ UNCHANGED sent
    /\ UNCHANGED <<server, model, device, transport, inbox, recvd, locals, disk, nmsgs>>

\* CanRead of a handler that takes the next frame before it has sent the
\* response to the last one
CanRead_pipelined(c) ==
    /\ \A d \in Conns \ {c} : pc[d] \notin Running
    /\ pc[c] \in {"listening", "send"}

\* line 226: handle_client takes its next frame when it waits in `async for`
\* and the event loop runs it
CanRead(c) == LoopFree /\ pc[c] = "listening"

\* line 226: the next frame is read
Read(c) ==
    /\ CanRead(c)
    /\ inbox[c] # <<>>
    /\ message' = [message EXCEPT ![c] = Head(inbox[c])]
    /\ inbox' = [inbox EXCEPT ![c] = Tail(@)]
    /\ recvd' = [recvd EXCEPT ![c] = @ + 1]
    /\ pc' = [pc EXCEPT ![c] = "dispatch"]
    /\ UNCHANGED <<server, model, device, transport, sent, text, config,
                   reference_audio_path, e, response, call, disk, nmsgs>>

\* line 226: the connection is closed and nothing is left to read
ReadClosed(c) ==
    /\ LoopFree
    /\ pc[c] = "listening"
    /\ inbox[c] = <<>>
    /\ ~transport[c]
    /\ pc' = [pc EXCEPT ![c] = "closed"]
    /\ UNCHANGED <<server, model, device, transport, inbox, sent, recvd, locals,
                   disk, nmsgs>>

\* Classify without the handler of line 263: what json.loads returned has no
\* get(), the AttributeError leaves the loop and ends the handler (275)
Classify_uncaught(m) ==
    IF m.json = "value"
    THEN [pc |-> "closed", response |-> NoResponse]
    ELSE [pc |-> IF m.type = "tts_request" THEN "tts_validate" ELSE "send_except",
          response |-> error_response(<<"Invalid JSON format">>)]

\* Classify without the clause of line 254: the JSONDecodeError is taken by
\* the handler of line 263
Classify_nojsonclause(m) ==
    CASE m.json \in {"invalid", "value"} ->
           [pc |-> "send_except",
            response |-> error_response(<<"Internal server error: ", "Expecting value">>)]
      [] m.json = "object" /\ m.type = "tts_request" ->
           [pc |-> "tts_validate", response |-> NoResponse]
      [] m.json = "object" /\ m.type = "ping" ->
           [pc |-> "send", response |-> pong_response]
      [] OTHER ->
           [pc |-> "send",
            response |-> error_response(<<"Unknown message type: ", m.type>>)]

\* Classify with a handler of line 263 that leaves str(e) out of its message
Classify_nostr(m) ==
    CASE m.json = "invalid" ->
           [pc |-> "send_except", response |-> error_response(<<"Invalid JSON format">>)]
      [] m.json = "value" ->
           [pc |-> "send_except", response |-> error_response(<<"Internal server error">>)]
      [] m.json = "object" /\ m.type = "tts_request" ->
           [pc |-> "tts_validate", response |-> NoResponse]
      [] m.json = "object" /\ m.type = "ping" ->
           [pc |-> "send", response |-> pong_response]
      [] OTHER ->
           [pc |-> "send",
            response |-> error_response(<<"Unknown message type: ", m.type>>)]

\* TypeName that always takes the default of get()
TypeName_default(m) == "unknown"

\* data.get('type', 'unknown') of line 249
TypeName(m) == IF m.type = Absent THEN "unknown" ELSE m.type

\* lines 229-252 and the handlers of 254-270: the response of a frame that is
\* no tts_request, and the place that sends it
Classify(m) ==
    CASE m.json = "invalid" ->
           [pc |-> "send_except", response |-> error_response(<<"Invalid JSON format">>)]
      [] m.json = "value" ->
           [pc |-> "send_except",
            response |-> error_response(<<"Internal server error: ", "object has no attribute 'get'">>)]
      [] m.json = "object" /\ m.type = "tts_request" ->
           [pc |-> "tts_validate", response |-> NoResponse]
      [] m.json = "object" /\ m.type = "ping" ->
           [pc |-> "send", response |-> pong_response]
      [] OTHER ->
           [pc |-> "send",
            response |-> error_response(<<"Unknown message type: ", TypeName(m)>>)]

Dispatch(c) ==
    /\ pc[c] = "dispatch"
    /\ pc' = [pc EXCEPT ![c] = Classify(message[c]).pc]
    /\ response' = [response EXCEPT ![c] = Classify(message[c]).response]
    /\ UNCHANGED <<server, model, device, transport, inbox, sent, recvd, message,
                   text, config, reference_audio_path, e, call, disk, nmsgs>>

\* lines 234, 242, 252: a send inside the try; ConnectionClosed is an Exception,
\* so the handler of line 263 takes it and sends once more (271)
Send(c) ==
    /\ pc[c] = "send"
    /\ IF transport[c]
       THEN /\ Sent(c, response[c], recvd[c])
            /\ pc' = [pc EXCEPT ![c] = "listening"]
            /\ Forget(c)
       ELSE /\ pc' = [pc EXCEPT ![c] = "send_except"]
            /\ response' = [response EXCEPT ![c] =
                   error_response(<<"Internal server error: ", "connection closed">>)]
            /\ UNCHANGED <<sent, message, text, config, reference_audio_path, e, call>>
    /\ UNCHANGED <<server, model, device, transport, inbox, recvd, disk, nmsgs>>

\* lines 261, 271: a send inside an except clause; ConnectionClosed leaves the
\* loop and ends the handler (273)
SendExcept(c) ==
    /\ pc[c] = "send_except"
    /\ IF transport[c]
       THEN /\ Sent(c, response[c], recvd[c])
            /\ pc' = [pc EXCEPT ![c] = "listening"]
       ELSE /\ pc' = [pc EXCEPT ![c] = "closed"]
            /\ UNCHANGED sent
    /\ Forget(c)
    /\ UNCHANGED <<server, model, device, transport, inbox, recvd, disk, nmsgs>>

(***************************************************************************)
(* process_tts_request                                                     *)
(***************************************************************************)
\* the temporary file NamedTemporaryFile makes for the request in hand: a
\* fresh name each time
TempFile(c, kind) == <<c, recvd[c], kind>>

\* the files of reference audio that exist for connection c
RefFiles(c) == { f \in disk : f[1] = c /\ f[3] = "reference" }

\* data.get("data", {}) of line 233
RequestData(c) == message[c].data

\* lines 136-150: text, its truncation, and the validated config
Validated(data) ==
    IF "text" \notin data.keys THEN Raised(<<"Missing required field: text">>)
    ELSE IF data.text = <<>> \/ Strip(data.text) = <<>>
         THEN Raised(<<"Text cannot be empty">>)
         ELSE _validate_config(IF "config" \in data.keys THEN data.config ELSE <<>>)

\* line 154
HasReferenceAudio(data) ==
    "reference_audio" \in data.keys /\ data.reference_audio # ""

TtsValidate(c) ==
    /\ pc[c] = "tts_validate"
    /\ LET data == RequestData(c)
           v == Validated(data)
       IN  IF v.ok
           THEN /\ text' = [text EXCEPT ![c] = Truncate(data.text)]
                /\ config' = [config EXCEPT ![c] = v.value]
                /\ pc' = [pc EXCEPT ![c] =
                       IF HasReferenceAudio(data) THEN "tts_decode" ELSE "tts_generate"]
                /\ UNCHANGED e
           ELSE /\ e' = [e EXCEPT ![c] = v.error]
                /\ pc' = [pc EXCEPT ![c] = "tts_except"]
                /\ UNCHANGED <<text, config>>
    /\ UNCHANGED <<server, model, device, transport, inbox, sent, recvd, message,
                   reference_audio_path, response, call, disk, nmsgs>>

\* lines 49-58, called at 155.  b64decode raises, or the file is made and
\* written; a write that fails leaves the file behind and its name unknown
\* to the caller
_decode_audio(c, written) ==
    /\ pc[c] = "tts_decode"
    /\ IF b64decode_raises(RequestData(c).reference_audio)
       THEN /\ e' = [e EXCEPT ![c] = <<"Invalid base64 audio data">>]
            /\ pc' = [pc EXCEPT ![c] = "tts_except"]
            /\ UNCHANGED <<disk, reference_audio_path>>
       ELSE /\ disk' = disk \cup {TempFile(c, "reference")}
            /\ IF written
               THEN /\ reference_audio_path' =
                          [reference_audio_path EXCEPT ![c] = TempFile(c, "reference")]
                    /\ pc' = [pc EXCEPT ![c] = "tts_generate"]
                    /\ UNCHANGED e
               ELSE /\ e' = [e EXCEPT ![c] = <<"Invalid base64 audio data">>]
                    /\ pc' = [pc EXCEPT ![c] = "tts_except"]
                    /\ UNCHANGED reference_audio_path
    /\ UNCHANGED <<server, model, device, transport, inbox, sent, recvd, message,
                   text, config, response, call, nmsgs>>

TtsDecode(c) == \E written \in BOOLEAN : _decode_audio(c, written)

\* lines 160-171: model.generate is entered with these arguments
GenerateArgs(c) ==
    [ text |-> text[c], audio_prompt_path |-> reference_audio_path[c],
      config |-> config[c] ]

GenerateCall(c) ==
    /\ pc[c] = "tts_generate"
    /\ model # None
    /\ call' = [call EXCEPT ![c] = GenerateArgs(c)]
    /\ pc' = [pc EXCEPT ![c] = "generating"]
    /\ UNCHANGED <<server, model, device, transport, inbox, sent, recvd, message,
                   text, config, reference_audio_path, e, response, disk, nmsgs>>

\* model.generate returns the audio or raises
GenerateReturn(c) ==
    /\ pc[c] = "generating"
    /\ \E raises \in BOOLEAN :
          IF raises
          THEN /\ e' = [e EXCEPT ![c] = <<"generate failed">>]
               /\ pc' = [pc EXCEPT ![c] = "tts_except"]
          ELSE /\ pc' = [pc EXCEPT ![c] = "tts_encode"]
               /\ UNCHANGED e
    /\ call' = [call EXCEPT ![c] = NoCall]
    /\ UNCHANGED <<server, model, device, transport, inbox, sent, recvd, message,
                   text, config, reference_audio_path, response, disk, nmsgs>>

\* lines 60-92, called at 174.  The output file is made and saved, read back
\* and unlinked in the finally; an unlink that fails is logged (89-90)
_encode_audio(c, saved, unlinked) ==
    /\ pc[c] = "tts_encode"
    /\ disk' = IF unlinked THEN disk ELSE disk \cup {TempFile(c, "output")}
    /\ IF saved
       THEN /\ pc' = [pc EXCEPT ![c] = "tts_cleanup"]
            /\ UNCHANGED e
       ELSE /\ e' = [e EXCEPT ![c] = <<"save failed">>]
            /\ pc' = [pc EXCEPT ![c] = "tts_except"]
    /\ UNCHANGED <<server, model, device, transport, inbox, sent, recvd, message,
                   text, config, reference_audio_path, response, call, nmsgs>>

TtsEncode(c) == \E saved, unlinked \in BOOLEAN : _encode_audio(c, saved, unlinked)

\* the test of lines 177 and 196
MustUnlink(c) ==
    reference_audio_path[c] # NoFile /\ reference_audio_path[c] \in disk

\* lines 177-189: the reference file is unlinked and the success returned; an
\* unlink that raises lands in the except clause of line 191
TtsCleanup(c) ==
    /\ pc[c] = "tts_cleanup"
    /\ \E unlinked \in BOOLEAN :
          IF MustUnlink(c) /\ ~unlinked
          THEN /\ e' = [e EXCEPT ![c] = <<"unlink failed">>]
               /\ pc' = [pc EXCEPT ![c] = "tts_except"]
               /\ UNCHANGED <<disk, response>>
          ELSE /\ disk' = disk \ {reference_audio_path[c]}
               /\ response' = [response EXCEPT ![c] = TtsSuccess(config[c])]
               /\ pc' = [pc EXCEPT ![c] = "send"]
               /\ UNCHANGED e
    /\ UNCHANGED <<server, model, device, transport, inbox, sent, recvd, message,
                   text, config, reference_audio_path, call, nmsgs>>

\* lines 191-206: the reference file is unlinked and the error returned; an
\* unlink that raises here leaves process_tts_request and is taken by the
\* handler of line 263
TtsExcept(c) ==
    /\ pc[c] = "tts_except"
    /\ \E unlinked \in BOOLEAN :
          IF MustUnlink(c) /\ ~unlinked
          THEN /\ response' = [response EXCEPT ![c] =
                      error_response(<<"Internal server error: ", "unlink failed">>)]
               /\ pc' = [pc EXCEPT ![c] = "send_except"]
               /\ UNCHANGED disk
          ELSE /\ disk' = disk \ {reference_audio_path[c]}
               /\ response' = [response EXCEPT ![c] = TtsError(e[c])]
               /\ pc' = [pc EXCEPT ![c] = "send"]
    /\ UNCHANGED <<server, model, device, transport, inbox, sent, recvd, message,
                   text, config, reference_audio_path, e, call, nmsgs>>

(***************************************************************************)
(* The system.                                                             *)
(***************************************************************************)
Next ==
    \/ start_server
    \/ \E c \in Conns : \E m \in Messages : ClientSend(c, m)
    \/ \E c \in Conns : ClientClose(c)
    \/ \E c \in Conns : Accept(c)
    \/ \E c \in Conns : Welcome(c)
    \/ \E c \in Conns : Read(c)
    \/ \E c \in Conns : ReadClosed(c)
    \/ \E c \in Conns : Dispatch(c)
    \/ \E c \in Conns : TtsValidate(c)
    \/ \E c \in Conns : TtsDecode(c)
    \/ \E c \in Conns : GenerateCall(c)
    \/ \E c \in Conns : GenerateReturn(c)
    \/ \E c \in Conns : TtsEncode(c)
    \/ \E c \in Conns : TtsCleanup(c)
    \/ \E c \in Conns : TtsExcept(c)
    \/ \E c \in Conns : Send(c)
    \/ \E c \in Conns : SendExcept(c)

Spec == Init /\ [][Next]_vars

\* the steps of the handle_client coroutine of c
SessionStep(c) ==
    \/ Welcome(c) \/ Read(c) \/ ReadClosed(c) \/ Dispatch(c)
    \/ TtsValidate(c) \/ TtsDecode(c) \/ GenerateCall(c) \/ GenerateReturn(c)
    \/ TtsEncode(c) \/ TtsCleanup(c) \/ TtsExcept(c) \/ Send(c) \/ SendExcept(c)

\* the event loop runs a coroutine that can run, and model.generate returns
\* or raises
FairSpec == Spec /\ \A c \in Conns : WF_vars(SessionStep(c))

(***************************************************************************)
(* The session protocol.                                                   *)
(***************************************************************************)
\* the handler of c is past its welcome and has not ended
Serving(c) == pc[c] \in Running \cup {"listening"}

\* how many server_info messages c was sent
ServerInfos(c) == Cardinality({ i \in 1..Len(sent[c]) : sent[c][i].type = "server_info" })

\* C1: a connection is sent exactly one server_info; it is the first message
\* sent on the connection, it is sent before any frame of the client is read,
\* and no later message is a server_info.  (A handler that ended may have sent
\* none: its connection was closed before the welcome.)
C1_ServerInfoOnceAndFirst ==
    \A c \in Conns :
      /\ \A i \in 1..Len(sent[c]) : (sent[c][i].type = "server_info") <=> (i = 1)
      /\ (Serving(c) \/ recvd[c] > 0) => ServerInfos(c) = 1
      /\ pc[c] \in {"none", "accepted"} => sent[c] = <<>> /\ recvd[c] = 0

\* a connection that was sent its server_info and two responses
C1_Witness ==
    \E c \in Conns : Len(sent[c]) = 3 /\ sent[c][1].type = "server_info"

\* C2: on a connection the responses are sent in the order the frames were
\* read: the i-th response answers the i-th frame.  At most one frame is in
\* hand, and when a frame is read every frame before it has its response sent.
C2_StrictFifo ==
    \A c \in Conns :
      /\ \A i \in 2..Len(sent[c]) : sent[c][i].re = i - 1
      /\ pc[c] \in Running => Len(sent[c]) = recvd[c]
      /\ pc[c] = "listening" => Len(sent[c]) = recvd[c] + 1

\* the second frame of a connection is in hand: the response to the first is
\* sent, the response to the second is not
C2_Witness ==
    \E c \in Conns :
      /\ pc[c] \in Running
      /\ recvd[c] = 2
      /\ Len(sent[c]) = 2

\* c has a frame in hand, on an open connection
InHand(c) == pc[c] \in Running /\ transport[c]

\* how far the handler of a frame is from waiting for the next one: each
\* place of lines 227-271 leads only to places further down
StepsLeft ==
    [ dispatch |-> 10, tts_validate |-> 9, tts_decode |-> 8, tts_generate |-> 7,
      generating |-> 6, tts_encode |-> 5, tts_cleanup |-> 4, tts_except |-> 3,
      send |-> 2, send_except |-> 1, listening |-> 0 ]

\* C3: no error of one frame ends the session.  A handler ends only when its
\* connection is closed; a handler with a frame in hand on an open connection
\* can always take its next step (the model call returning or raising is one),
\* and each step brings it closer to waiting for the next frame, which it
\* reaches with the connection still open.
C3_ErrorsKeepTheSession ==
    /\ [](\A c \in Conns : InHand(c) => ENABLED SessionStep(c))
    /\ [][\A c \in Conns :
            (pc[c] # "closed" /\ pc'[c] = "closed") => ~transport[c]]_vars
    /\ [][\A c \in Conns :
            (InHand(c) /\ pc'[c] # pc[c]) =>
               /\ transport'[c]
               /\ pc'[c] \in DOMAIN StepsLeft
               /\ StepsLeft[pc'[c]] < StepsLeft[pc[c]]]_vars

\* an open connection whose first frame ended in an unlink that raised twice,
\* and whose handler listens again, the second frame waiting
C3_Witness ==
    \E c \in Conns :
      /\ pc[c] = "listening" /\ transport[c] /\ inbox[c] # <<>>
      /\ Len(sent[c]) = 2
      /\ sent[c][2].message = <<"Internal server error: ", "unlink failed">>

(***************************************************************************)
(* The synthesis call.                                                     *)
(***************************************************************************)
\* C4: while model.generate runs for one session the others go on: a new
\* connection can be accepted, an accepted one can be sent its server_info,
\* and a session with a frame waiting can read it.
C4_OtherSessionsProgress ==
    \A c \in Conns : \A d \in Conns \ {c} :
      pc[c] = "generating" =>
        /\ pc[d] = "none" => ENABLED Accept(d)
        /\ pc[d] = "accepted" => ENABLED Welcome(d)
        /\ (pc[d] = "listening" /\ inbox[d] # <<>>) => ENABLED Read(d)

\* C5: when a tts_request with reference audio completes, no temporary file
\* of its reference audio exists: none exists when the response is about to
\* be sent, nor while the session listens, nor after it ended.
C5_NoReferenceFileLeft ==
    \A c \in Conns :
      pc[c] \in {"send", "send_except", "listening", "closed"} => RefFiles(c) = {}

\* C6: an unlink of the reference file that fails changes nothing of the
\* outcome: a request whose audio is generated and encoded (the handler is at
\* line 177) returns a tts_response with status "success".
C6_UnlinkFailureIsNotFatal ==
    [][\A c \in Conns :
         (pc[c] = "tts_cleanup" /\ pc'[c] # "tts_cleanup") =>
            (pc'[c] = "send" /\ response'[c] = TtsSuccess(config[c]))]_vars

\* C7: when model.generate raised, the response to the request is a
\* tts_response with status "error", audio null and the exception's message.
C7_ModelFailureIsTtsError ==
    \A c \in Conns :
      (e[c] = <<"generate failed">> /\ transport[c] /\ pc[c] \in {"send", "send_except"})
         => response[c] = TtsError(<<"generate failed">>)

\* C8: model.generate is called with a supported language_id and with every
\* numeric parameter inside its range.
C8_GenerateArgsValid ==
    \A c \in Conns :
      pc[c] = "generating" =>
         /\ call[c].config["language_id"] \in SUPPORTED_LANGUAGES
         /\ \A key \in NumericKeys :
               Range[key][1] <= call[c].config[key] /\ call[c].config[key] <= Range[key][2]

(***************************************************************************)
(* Protocol errors.                                                        *)
(***************************************************************************)
\* a JSON object whose type is neither tts_request nor ping
UnknownType(m) == m.json = "object" /\ m.type \notin {"tts_request", "ping"}

\* the error message that names the type of frame m
UnknownTypeText(m) ==
    <<"Unknown message type: ", IF m.type = Absent THEN "unknown" ELSE m.type>>

\* the step sends c exactly one message, the error with this text in answer
\* to the frame in hand, and c waits for its next frame
AnswersError(c, txt) ==
    /\ pc'[c] = "listening"
    /\ transport'[c]
    /\ sent'[c] = Append(sent[c], [type |-> "error", status |-> Absent,
                                   message |-> txt, re |-> recvd[c]])

\* C9: a JSON object of an unknown type is answered with exactly one error
\* message, "Unknown message type: <type>"; the model is not called, and the
\* session listens again on the open connection.
C9_UnknownTypeAnswered ==
    /\ [](\A c \in Conns :
            (InHand(c) /\ UnknownType(message[c]) /\ pc[c] # "dispatch") =>
               /\ pc[c] = "send"
               /\ response[c] = error_response(UnknownTypeText(message[c])))
    /\ [][\A c \in Conns :
            (InHand(c) /\ UnknownType(message[c]) /\ pc'[c] # pc[c]) =>
               IF pc[c] = "dispatch"
               THEN pc'[c] = "send" /\ sent'[c] = sent[c]
               ELSE AnswersError(c, UnknownTypeText(message[c]))]_vars

\* a connection whose first frame, of type foo, got its error and whose
\* second frame, a tts_request, got its audio
C9_Witness ==
    \E c \in Conns :
      /\ Len(sent[c]) = 3
      /\ sent[c][2].message = <<"Unknown message type: ", "foo">>
      /\ sent[c][3].type = "tts_response" /\ sent[c][3].status = "success"

\* text that json.loads rejects
InvalidJson(m) == m.json = "invalid"

\* C10: a frame that is not JSON is answered with exactly one error message,
\* "Invalid JSON format"; the model is not called, and the session listens
\* again.
C10_InvalidJsonAnswered ==
    /\ [](\A c \in Conns :
            (InHand(c) /\ InvalidJson(message[c]) /\ pc[c] # "dispatch") =>
               /\ pc[c] = "send_except"
               /\ response[c] = error_response(<<"Invalid JSON format">>))
    /\ [][\A c \in Conns :
            (InHand(c) /\ InvalidJson(message[c]) /\ pc'[c] # pc[c]) =>
               IF pc[c] = "dispatch"
               THEN pc'[c] = "send_except" /\ sent'[c] = sent[c]
               ELSE AnswersError(c, <<"Invalid JSON format">>)]_vars

\* a session that answered a frame that is not JSON and listens, its next
\* frame waiting
C10_Witness ==
    \E c \in Conns :
      /\ pc[c] = "listening" /\ inbox[c] # <<>>
      /\ Len(sent[c]) = 2
      /\ sent[c][2].message = <<"Invalid JSON format">>

(***************************************************************************)
(* ping.                                                                   *)
(***************************************************************************)
\* a JSON object of type ping (line 236)
IsPing(m) == m.json = "object" /\ m.type = "ping"

\* C11: a ping read by a session on an open connection is answered by a pong
\* whose data is {"message": "Server is alive"}; the pong is the next message
\* sent on the connection and answers that frame, whatever the data of the
\* ping and whatever was handled before; while the ping is in hand the model
\* is not called and no temporary file is made.
C11_PingAnsweredByPong ==
    /\ [](\A c \in Conns :
            (InHand(c) /\ IsPing(message[c]) /\ pc[c] # "dispatch") =>
               /\ pc[c] = "send"
               /\ response[c].type = "pong"
               /\ response[c].keys = {"message"}
               /\ response[c].message = <<"Server is alive">>)
    /\ [][\A c \in Conns :
            (InHand(c) /\ IsPing(message[c]) /\ pc'[c] # pc[c]) =>
               /\ disk' = disk
               /\ call' = call
               /\ IF pc[c] = "dispatch"
                  THEN /\ pc'[c] = "send" /\ sent'[c] = sent[c]
                       /\ \A d \in TtsInputs \cup {NoData} :
                             Classify(Object("ping", d)).response = response'[c]
                  ELSE /\ pc'[c] = "listening"
                       /\ sent'[c] = Append(sent[c],
                              [type |-> "pong", status |-> Absent,
                               message |-> <<>>, re |-> recvd[c]])]_vars

\* a connection whose first frame, a tts_request, got its audio and whose
\* second frame, a ping, got its pong
C11_Witness ==
    \E c \in Conns :
      /\ Len(sent[c]) = 3
      /\ sent[c][2].type = "tts_response" /\ sent[c][2].status = "success"
      /\ sent[c][3].type = "pong" /\ sent[c][3].re = 2

\* test_client.py, test_ping: `response`, the one message the client reads
\* after its ping: the first message the server sent on the connection
test_ping_response(c) == sent[c][1]

\* C12: a client whose first frame is a ping reads a pong as the first message
\* of the connection.
C12_FirstReadIsPong ==
    \A c \in Conns :
      (Len(sent[c]) >= 2 /\ sent[c][2].re = 1 /\ sent[c][2].type = "pong")
         => test_ping_response(c).type = "pong"

(***************************************************************************)
(* The model handle.  The server on any host, its load_model awaited again *)
(* while it serves, and clients that ping.                                 *)
(***************************************************************************)
\* __init__ on a host with any of the backends
HostInit ==
    \E cuda_is_available, mps_is_available \in BOOLEAN :
       InitOn(cuda_is_available, mps_is_available)

\* lines 38-47: load_model is awaited once more while the server runs; it has
\* no await, so it runs in one step of the event loop
load_model_again ==
    /\ server = "serving"
    /\ LoopFree
    /\ \E loads \in BOOLEAN : load_model(loads)
    /\ UNCHANGED <<server, device, conn, locals, disk, nmsgs>>

LoadNext ==
    \/ start_server
    \/ load_model_again
    \/ \E c \in Conns : ClientSend(c, Object("ping", NoData))
    \/ \E c \in Conns : ClientClose(c)
    \/ \E c \in Conns : Accept(c)
    \/ \E c \in Conns : Welcome(c)
    \/ \E c \in Conns : Read(c)
    \/ \E c \in Conns : ReadClosed(c)
    \/ \E c \in Conns : Dispatch(c)
    \/ \E c \in Conns : Send(c)
    \/ \E c \in Conns : SendExcept(c)

LoadSpec == HostInit /\ [][LoadNext]_vars

\* C13: the model is loaded at most once and before any connection is
\* accepted.  A handler exists only while the server serves, and the server
\* serves only with the handle set; a handle that is set is never replaced,
\* by a further load_model either; the device never changes; and a server
\* whose load failed has aborted for good, with no handle and no connection
\* ever accepted.
C13_ModelLoadedOnceBeforeServing ==
    /\ [](\A c \in Conns : pc[c] # "none" => (server = "serving" /\ model # None))
    /\ [](server = "serving" => model # None)
    /\ [](server = "aborted" => (model = None /\ \A c \in Conns : pc[c] = "none"))
    /\ [][model # None => model' = model]_vars
    /\ [][device' = device]_vars
    /\ [][server = "aborted" => server' = "aborted"]_vars

\* on a host with mps, a session has answered a ping
C13_Witness ==
    /\ device = "mps"
    /\ model = "ChatterboxMultilingualTTS"
    /\ \E c \in Conns : Len(sent[c]) = 2 /\ sent[c][2].type = "pong"

(***************************************************************************)
(* One tts_request, of any text and config, handled by a session.          *)
(***************************************************************************)
\* keys a config of these requests holds at most
MaxKeys == 2

\* characters by which a text of these requests exceeds the limit, at most
MaxOver == 1

\* a text of n times the character ch
Repeat(ch, n) == [i \in 1..n |-> ch]

\* the language ids the requests carry
LanguageIds ==
    << <<"e", "s">>, <<"E", "S">>, <<"e", "n">>, <<"E", "n">>, <<"x", "x">> >>

\* the i-th value the requests carry for a key: for a numeric key the value
\* just below its range, its lower bound, a value inside, its upper bound and
\* the value just above
ValueOf(key, i) ==
    IF key = "language_id" THEN LanguageIds[i]
    ELSE IF key \in NumericKeys
         THEN << Range[key][1] - 1, Range[key][1],
                 (Range[key][1] + Range[key][2]) \div 2,
                 Range[key][2], Range[key][2] + 1 >>[i]
         ELSE 7

\* the keys a config may hold: those of defaults, and one they do not know
SuppliedKeys == NumericKeys \cup {"language_id", "seed"}

\* the partial configs of at most MaxKeys keys
Configs ==
    UNION { { [k \in K |-> ValueOf(k, g[k])] : g \in [K -> 1..5] } :
            K \in { K \in SUBSET SuppliedKeys : Cardinality(K) <= MaxKeys } }

\* the texts: empty, blank, short, of the limit exactly, and longer
Texts ==
    { <<>>, <<" ">>, <<" ", "\t", "\n">>, Hola, <<" ", "a", " ">>,
      Repeat("a", MaxTextLen), Repeat(" ", MaxTextLen) }
    \cup UNION { { Repeat("a", MaxTextLen) \o Repeat("b", k),
                   Repeat(" ", MaxTextLen) \o Repeat("a", k),
                   Repeat(" ", MaxTextLen + k) } : k \in 1..MaxOver }

\* the `data` of the requests
Requests ==
    { TtsData({"text", "config"}, Hola, Absent, cfg) : cfg \in Configs }
    \cup { TtsData({"text"}, t, Absent, <<>>) : t \in Texts }
    \cup { TtsData({"text", "reference_audio"}, Hola, a, <<>>) :
             a \in {"", "UklGRg==", "not base64"} }
    \cup { NoData }

\* the server serves, connection c0 has its welcome and the client's request
\* has arrived on it
RequestInit ==
    \E c0 \in Conns : \E d \in Requests :
       /\ server = "serving"
       /\ model = "ChatterboxMultilingualTTS"
       /\ device = _get_device(FALSE, FALSE)
       /\ pc = [c \in Conns |-> IF c = c0 THEN "listening" ELSE "none"]
       /\ transport = [c \in Conns |-> c = c0]
       /\ inbox = [c \in Conns |-> IF c = c0 THEN <<Object("tts_request", d)>> ELSE <<>>]
       /\ sent = [c \in Conns |-> IF c = c0 THEN <<Summary(welcome_msg, 0)>> ELSE <<>>]
       /\ recvd = [c \in Conns |-> 0]
       /\ message = [c \in Conns |-> BadJson]
       /\ text = [c \in Conns |-> <<>>]
       /\ config = [c \in Conns |-> defaults]
       /\ reference_audio_path = [c \in Conns |-> NoFile]
       /\ e = [c \in Conns |-> <<>>]
       /\ response = [c \in Conns |-> NoResponse]
       /\ call = [c \in Conns |-> NoCall]
       /\ disk = {}
       /\ nmsgs = 1

\* the steps of the session that handles the request
RequestNext ==
    \/ \E c \in Conns : Read(c)
    \/ \E c \in Conns : Dispatch(c)
    \/ \E c \in Conns : TtsValidate(c)
    \/ \E c \in Conns : TtsDecode(c)
    \/ \E c \in Conns : GenerateCall(c)
    \/ \E c \in Conns : GenerateReturn(c)
    \/ \E c \in Conns : TtsEncode(c)
    \/ \E c \in Conns : TtsCleanup(c)
    \/ \E c \in Conns : TtsExcept(c)
    \/ \E c \in Conns : Send(c)
    \/ \E c \in Conns : SendExcept(c)

RequestSpec == RequestInit /\ [][RequestNext]_vars

(***************************************************************************)
(* Validation of a request.                                                *)
(***************************************************************************)
\* data.get("config", {}) of line 149, for the request c has in hand
ConfigOf(c) ==
    IF "config" \in RequestData(c).keys THEN RequestData(c).config ELSE <<>>

\* a text with no character other than whitespace
Blank(t) == \A i \in 1..Len(t) : t[i] \in {" ", "\t", "\n"}

\* the request c has in hand has a text that is not blank
TextPasses(c) == "text" \in RequestData(c).keys /\ ~Blank(RequestData(c).text)

\* the step in which c runs lines 136-150
Validates(c) == pc[c] = "tts_validate" /\ pc'[c] # "tts_validate"

\* the step accepted the request: line 150 returned
Accepted(c) == pc'[c] \in {"tts_decode", "tts_generate"}

\* the step rejected the request: a ValueError reached line 191
Rejected(c) == pc'[c] = "tts_except"

\* C14: a language_id whose lower-cased form is supported is accepted and the
\* validated config holds the lower-cased id; any other language_id is
\* rejected, whatever the other fields, with an error that lists the
\* supported languages.
C14_LanguageChecked ==
    [][\A c \in Conns :
         (Validates(c) /\ TextPasses(c) /\ "language_id" \in DOMAIN ConfigOf(c)) =>
            LET lang == Lower(ConfigOf(c)["language_id"])
            IN  IF lang \in SUPPORTED_LANGUAGES
                THEN /\ Rejected(c) => e'[c][1] # "Unsupported language: "
                     /\ Accepted(c) => config'[c]["language_id"] = lang
                ELSE /\ Rejected(c)
                     /\ e'[c][1] = "Unsupported language: "
                     /\ e'[c][Len(e'[c])] = SUPPORTED_LANGUAGES]_vars

\* the request c has in hand has no language_id or a supported one
LanguagePasses(c) ==
    "language_id" \in DOMAIN ConfigOf(c) =>
       Lower(ConfigOf(c)["language_id"]) \in SUPPORTED_LANGUAGES

\* the ranges and the names of the numeric fields, as specified
C15_Ranges ==
    [ exaggeration |-> <<25, 200>>, temperature |-> <<5, 500>>,
      cfg_weight |-> <<0, 100>>, repetition_penalty |-> <<100, 300>>,
      min_p |-> <<0, 100>>, top_p |-> <<0, 100>> ]

C15_Names ==
    [ exaggeration |-> "Exaggeration", temperature |-> "Temperature",
      cfg_weight |-> "CFG weight", repetition_penalty |-> "Repetition penalty",
      min_p |-> "Min_p", top_p |-> "Top_p" ]

\* the places in ConfigKeys of the numeric fields the request supplies with a
\* value below the lower or above the upper bound
C15_OutOfRange(c) ==
    { i \in 2..Len(ConfigKeys) :
        /\ ConfigKeys[i] \in DOMAIN ConfigOf(c)
        /\ \/ ConfigOf(c)[ConfigKeys[i]] < C15_Ranges[ConfigKeys[i]][1]
           \/ ConfigOf(c)[ConfigKeys[i]] > C15_Ranges[ConfigKeys[i]][2] }

\* C15: each numeric field has a closed range.  A request whose numeric
\* fields are all at a bound or between the bounds is accepted with the
\* values it supplied; a request with a field below its lower or above its
\* upper bound is rejected with an error that names the field (the first such
\* field, when there are several).
C15_RangesAreClosed ==
    [][\A c \in Conns :
         (Validates(c) /\ TextPasses(c) /\ LanguagePasses(c)) =>
            IF C15_OutOfRange(c) = {}
            THEN /\ Accepted(c)
                 /\ \A key \in NumericKeys \cap DOMAIN ConfigOf(c) :
                       config'[c][key] = ConfigOf(c)[key]
            ELSE LET first == CHOOSE i \in C15_OutOfRange(c) :
                                 \A j \in C15_OutOfRange(c) : i <= j
                 IN  /\ Rejected(c)
                     /\ e'[c][1] = C15_Names[ConfigKeys[first]]]_vars

\* model.generate runs with a temperature at the upper bound and a min_p at
\* the lower bound, as the request supplied them
C15_Witness ==
    \E c \in Conns :
      /\ pc[c] = "generating"
      /\ DOMAIN ConfigOf(c) = {"temperature", "min_p"}
      /\ ConfigOf(c)["temperature"] = 500 /\ call[c].config["temperature"] = 500
      /\ ConfigOf(c)["min_p"] = 0 /\ call[c].config["min_p"] = 0

\* the defaults, as specified
C16_Defaults ==
    [ language_id |-> <<"e", "s">>, exaggeration |-> 50, temperature |-> 80,
      cfg_weight |-> 50, repetition_penalty |-> 200, min_p |-> 5, top_p |-> 100 ]

\* C16: the config of an accepted request has exactly the seven fields; a
\* field the request does not supply has its default, a field it supplies has
\* the supplied value (the language id lower-cased), and a key that is none of
\* the seven is dropped; a request with no config that succeeds reports the
\* language "es".
C16_DefaultsFilledIn ==
    /\ [][\A c \in Conns :
            (Validates(c) /\ Accepted(c)) =>
               /\ DOMAIN config'[c] = DOMAIN C16_Defaults
               /\ \A key \in DOMAIN C16_Defaults :
                     config'[c][key] =
                        IF key \notin DOMAIN ConfigOf(c) THEN C16_Defaults[key]
                        ELSE IF key = "language_id" THEN Lower(ConfigOf(c)[key])
                        ELSE ConfigOf(c)[key]]_vars
    /\ [](\A c \in Conns :
            (pc[c] = "send" /\ response[c].status = "success"
                /\ "config" \notin RequestData(c).keys)
               => response[c].language = <<"e", "s">>)

\* the first 500 characters of a text
C17_First500(t) == IF Len(t) > 500 THEN SubSeq(t, 1, 500) ELSE t

\* C17: a request whose text is empty or blank is rejected with a
\* tts_response of status "error" that says the text cannot be empty, and the
\* model is not called for it.  Any other text is not rejected for its
\* length: the model is called with the text unchanged when it has at most
\* 500 characters and with exactly its first 500 characters when it has more.
C17_TextHandling ==
    /\ [][\A c \in Conns :
            (Validates(c) /\ "text" \in RequestData(c).keys) =>
               IF Blank(RequestData(c).text)
               THEN Rejected(c) /\ e'[c] = <<"Text cannot be empty">>
               ELSE (LanguagePasses(c) /\ C15_OutOfRange(c) = {}) =>
                       (Accepted(c) /\ text'[c] = C17_First500(RequestData(c).text))]_vars
    /\ [](\A c \in Conns :
            pc[c] = "generating" =>
               /\ ~Blank(RequestData(c).text)
               /\ call[c].text = C17_First500(RequestData(c).text))
    /\ [](\A c \in Conns :
            (pc[c] \in Running \ {"dispatch", "tts_validate"}
                /\ "text" \in RequestData(c).keys /\ Blank(RequestData(c).text)) =>
               /\ pc[c] \in {"tts_except", "send"}
               /\ pc[c] = "send" =>
                     /\ response[c].type = "tts_response"
                     /\ response[c].status = "error"
                     /\ response[c].audio = None
                     /\ response[c].message = <<"Text cannot be empty">>)

\* model.generate runs with 500 characters for a request of 501
C17_Witness ==
    \E c \in Conns :
      /\ pc[c] = "generating"
      /\ Len(RequestData(c).text) = 501
      /\ Len(call[c].text) = 500
      /\ call[c].text[500] = "a"

(***************************************************************************)
(* The responses.                                                          *)
(***************************************************************************)
\* C18: a tts_response has one of two shapes and never a mixture: status
\* "success" with audio that is not null, the sample rate of the model and the
\* language of the validated config; or status "error" with audio null, a
\* message, and neither sample_rate nor language.
C18_TwoShapes ==
    \A c \in Conns :
      response[c].type = "tts_response" =>
         \/ /\ response[c].status = "success"
            /\ response[c].keys = {"audio", "status", "message", "sample_rate", "language"}
            /\ response[c].audio \notin {None, Absent}
            /\ response[c].sample_rate = "model.sr"
            /\ response[c].language = config[c]["language_id"]
         \/ /\ response[c].status = "error"
            /\ response[c].keys = {"audio", "status", "message"}
            /\ response[c].audio = None
            /\ response[c].sample_rate = Absent
            /\ response[c].language = <<>>

\* a success in English is about to be sent
C18_Witness ==
    \E c \in Conns :
      /\ pc[c] = "send"
      /\ response[c].type = "tts_response"
      /\ response[c].status = "success"
      /\ response[c].language = <<"e", "n">>

(***************************************************************************)
(* The handler of line 263.                                                *)
(***************************************************************************)
\* str(e) of the exception that reaches line 263 for the frame c has in hand:
\* JSON that is no object has no get(); out of process_tts_request comes the
\* OSError of the unlink of line 197
C19_Str(c) ==
    IF message[c].json = "value" THEN "object has no attribute 'get'"
    ELSE "unlink failed"

\* C19: an exception of the dispatch of a frame that nothing else handles
\* (JSON that is no object, an exception that leaves process_tts_request) is
\* caught for that frame alone: the session answers with exactly one error
\* message, "Internal server error: " and the exception's string, and listens
\* for the next frame on the open connection.
C19_UnhandledIsAnswered ==
    /\ [](\A c \in Conns :
            (InHand(c) /\ pc[c] = "send_except" /\ ~InvalidJson(message[c])) =>
               /\ response[c].type = "error"
               /\ response[c].message = <<"Internal server error: ", C19_Str(c)>>)
    /\ [][\A c \in Conns :
            (InHand(c) /\ pc'[c] # pc[c]) =>
               /\ (pc[c] = "dispatch" /\ message[c].json = "value") =>
                     (pc'[c] = "send_except" /\ sent'[c] = sent[c])
               /\ (pc[c] = "tts_except" /\ pc'[c] # "send") =>
                     (pc'[c] = "send_except" /\ sent'[c] = sent[c])
               /\ (pc[c] = "send_except" /\ ~InvalidJson(message[c])) =>
                     AnswersError(c, <<"Internal server error: ", C19_Str(c)>>)]_vars

\* a session that answered JSON that is no object with its error, and the
\* next frame, a ping, with a pong
C19_Witness ==
    \E c \in Conns :
      /\ pc[c] = "listening" /\ transport[c]
      /\ Len(sent[c]) = 3
      /\ sent[c][2].message = <<"Internal server error: ", "object has no attribute 'get'">>
      /\ sent[c][3].type = "pong"

(***************************************************************************)
(* The end of a session.                                                   *)
(***************************************************************************)
\* C20: closed is final.  A handler that finds its connection closed, by a
\* read that ends or by a send that fails, ends there: it tries no other send
\* and no other read, and an ended handler never does anything again; the
\* step that ends it changes nothing of the other sessions.
C20_ClosedIsTerminal ==
    /\ [][\A c \in Conns :
            pc[c] = "closed" =>
               (pc'[c] = "closed" /\ sent'[c] = sent[c] /\ recvd'[c] = recvd[c])]_vars
    /\ [][\A c \in Conns :
            (pc[c] \in {"accepted", "send", "send_except"} /\ ~transport[c]
                /\ pc'[c] # pc[c]) => pc'[c] = "closed"]_vars
    /\ [][\A c \in Conns :
            (pc[c] = "listening" /\ ~transport[c] /\ inbox[c] = <<>>
                /\ pc'[c] # pc[c]) => pc'[c] = "closed"]_vars
    /\ [][\A c \in Conns : \A d \in Conns \ {c} :
            (pc[c] # "closed" /\ pc'[c] = "closed") =>
               /\ pc'[d] = pc[d] /\ transport'[d] = transport[d]
               /\ inbox'[d] = inbox[d] /\ sent'[d] = sent[d]]_vars

(***************************************************************************)
(* One answer to each frame.                                               *)
(***************************************************************************)
\* the type of the answer to a frame: tts_response to a tts_request, pong to
\* a ping, error to everything else
C21_AnswerType(m) ==
    IF m.json = "object" /\ m.type = "tts_request" THEN "tts_response"
    ELSE IF m.json = "object" /\ m.type = "ping" THEN "pong"
    ELSE "error"

\* C21: on an open connection every frame read gets exactly one message in
\* answer: a session that listens has sent one message for each frame it
\* read, a session with a frame in hand has sent none for it yet and can take
\* its next step, and the message it is about to send has the type that
\* answers the frame.
C21_OneAnswerOfItsType ==
    \A c \in Conns :
      /\ pc[c] = "listening" => Len(sent[c]) = recvd[c] + 1
      /\ InHand(c) => (Len(sent[c]) = recvd[c] /\ ENABLED SessionStep(c))
      /\ (InHand(c) /\ pc[c] \in {"send", "send_except"}) =>
            response[c].type = C21_AnswerType(message[c])

(***************************************************************************)
(* The arguments of model.generate.                                        *)
(***************************************************************************)
\* C22: the text model.generate is called with is never empty and never
\* blank, whatever the length of the text of the request.
C22_GeneratedTextNotBlank ==
    \A c \in Conns :
      pc[c] = "generating" => (call[c].text # <<>> /\ ~Blank(call[c].text))

\* the config model.generate gets for a request, from the config of that
\* request alone: the fields it supplies among the seven, the defaults for
\* the others
C23_Config(cfg) ==
    [ key \in DOMAIN C16_Defaults |->
        IF key \in DOMAIN cfg THEN cfg[key] ELSE C16_Defaults[key] ]

\* the request c has in hand is a tts_request
C23_TtsInHand(c) ==
    pc[c] \in Running /\ message[c].json = "object" /\ message[c].type = "tts_request"

\* C23: requests are isolated.  What model.generate is called with, and the
\* response, are those of the request in hand alone: its own text, the file
\* of its own reference audio or none, its own config over the defaults;
\* nothing of an earlier request, on this or on another connection, is left
\* in them.  While a request is handled its mapping is not modified.
C23_RequestsIsolated ==
    /\ [](\A c \in Conns :
            /\ pc[c] = "generating" =>
                  /\ call[c].text = C17_First500(RequestData(c).text)
                  /\ call[c].config = C23_Config(ConfigOf(c))
                  /\ call[c].audio_prompt_path =
                        IF HasReferenceAudio(RequestData(c))
                        THEN <<c, recvd[c], "reference">> ELSE NoFile
            /\ (C23_TtsInHand(c) /\ pc[c] = "send") =>
                  \/ /\ response[c].status = "success"
                     /\ response[c].language = C23_Config(ConfigOf(c))["language_id"]
                  \/ /\ response[c].status = "error"
                     /\ response[c].message = e[c])
    /\ [][\A c \in Conns :
            (pc[c] \in Running /\ pc'[c] \in Running) => message'[c] = message[c]]_vars

\* after a request that failed, the next request of the connection, which
\* has no config, is in the model with the defaults
C23_Witness ==
    \E c \in Conns :
      /\ pc[c] = "generating"
      /\ recvd[c] = 2
      /\ sent[c][2].type = "tts_response" /\ sent[c][2].status = "error"
      /\ "config" \notin RequestData(c).keys
      /\ call[c].config = C16_Defaults

=============================================================================
